---------------------------- MODULE Spec2Model ----------------------------
(***************************************************************************)
(* A model of Mlocker (github.com/AlyRagab/Mlocker): the locked allocator, *)
(* the process master key, and the SecureBuffer envelope with its          *)
(* encrypt / decrypt / use / destroy protocol and destruction timer.       *)
(*                                                                         *)
(* Memory is modelled byte by byte.  A byte value is a tuple: <<v>> is the *)
(* plain byte v, longer tuples are bytes of HMAC-SHA256 or AES-GCM output, *)
(* written as terms over their inputs so that two outputs are equal        *)
(* exactly when their inputs are (the primitives are taken to be collision *)
(* free and unforgeable).                                                  *)
(***************************************************************************)
EXTENDS Integers, Sequences, FiniteSets, TLC

(***************************************************************************)
(* Bounds of the model.                                                    *)
(***************************************************************************)
MaxLen     == 1   \* longest plaintext handed to an encrypt call
MaxRand    == 1   \* the random source fills a buffer with one of 1..MaxRand
MaxRegions == 8   \* mappings the process may hold at once (then mmap fails)
MaxFaults  == 1   \* operating-system calls made to fail in one run
MaxEncrypt == 1   \* encrypt calls the caller makes in one run
MaxTimers  == 2   \* timers DestroyAfter may create in one run
MaxTamper  == 1   \* envelope bytes an outside writer changes in one run
StateLen   == 1   \* bytes of a hash or cipher state struct moved to locked memory

(***************************************************************************)
(* Program constants.                                                      *)
(***************************************************************************)
saltLen  == 16
nonceLen == 12
macLen   == 32
keyLen   == 32    \* AllocateLocked(32): master key and derived key
Overhead == 16    \* lockedAEAD.Overhead(): the AES-GCM tag

NULL == 0

(***************************************************************************)
(* Byte values and byte strings.                                           *)
(***************************************************************************)
ZeroByte == <<0>>
Plain(v) == <<v>>
Zeros(n) == [i \in 1..n |-> ZeroByte]
Fill(n, v) == [i \in 1..n |-> Plain(v)]
AllZero(bs) == \A i \in 1..Len(bs) : bs[i] = ZeroByte

Min(S) == CHOOSE x \in S : \A y \in S : x <= y

(***************************************************************************)
(* HMAC-SHA256: hmac.New(sha256.New, key), Write(msg)..., Sum.  The first  *)
(* of the 32 output bytes is the term <<1, key, msg>>; a term's leading    *)
(* number tells its shape.                                                 *)
(***************************************************************************)
HMACSum(key, msg) ==
    [i \in 1..macLen |-> IF i = 1 THEN <<1, key, msg>> ELSE <<11, i>>]

\* hmac.Equal finding every pair of macs different
HMACEqualNever(a, b) == FALSE

\* hmac.Equal: equal lengths and equal bytes
HMACEqual(a, b) == a = b

(***************************************************************************)
(* AES-256-GCM with empty associated data.  Seal returns len(plaintext) +  *)
(* Overhead bytes, the first being <<2, key, nonce, plaintext>>; Open      *)
(* returns the plaintext exactly when the ciphertext is what Seal made     *)
(* under the same key and nonce.                                           *)
(***************************************************************************)
AEADSeal(key, nonce, plaintext) ==
    [i \in 1..(Len(plaintext) + Overhead) |->
        IF i = 1 THEN <<2, key, nonce, plaintext>> ELSE <<12, i>>]

AEADOpen(key, nonce, ct) ==
    LET n    == Len(ct) - Overhead
        cand == IF n >= 0 /\ Len(ct[1]) = 4 THEN ct[1][4] ELSE <<>>
    IN  IF n >= 0 /\ Len(cand) = n /\ AEADSeal(key, nonce, cand) = ct
        THEN [ok |-> TRUE, pt |-> cand]
        ELSE [ok |-> FALSE, pt |-> <<>>]

\* The key-dependent bytes of a hash or cipher state struct.
StateBytes(key) ==
    [i \in 1..StateLen |-> IF i = 1 THEN <<3, key>> ELSE <<13, i>>]


(***************************************************************************)
(* Operating-system memory.  regs maps an address slot to the mapping that *)
(* lives there.  A LockedBuffer is [ptr, size], a Go slice [ptr, off, len].*)
(***************************************************************************)
Slots == 1..MaxRegions

NoRegion == [mapped |-> FALSE, locked |-> FALSE, len |-> 0, bytes |-> <<>>]

NilBuf == [ptr |-> NULL, size |-> 0]

NilSlice == [ptr |-> NULL, off |-> 0, len |-> 0]

SliceOf(ptr, off, len) == [ptr |-> ptr, off |-> off, len |-> len]

\* Outcomes the environment may give to one operating-system call.
Faults ==
    {"mmap", "mlock2", "ENOSYS", "EINVAL", "ENOSYS+mlock", "EINVAL+mlock",
     "munlock", "munmap", "rand"}

\* A run of library code: the memory, the globals of mlocker.go, the number
\* of system-touching calls made so far (trace: their kinds), and the call
\* (at) that meets fault f.  sys lists the system calls issued on memory, each
\* with the errno it returned, and dirty tells that a mapping went back to
\* the system with a non-zero byte.
Machine(rg, mk, mb, od, at, f) ==
    [regs |-> rg, masterKey |-> mk, masterBuf |-> mb, once |-> od,
     n |-> 0, at |-> at, f |-> f, hit |-> FALSE, oom |-> FALSE,
     segv |-> FALSE, trace |-> <<>>, sys |-> <<>>, dirty |-> FALSE]

\* The names of the system calls in a log.
Calls(sys) == [i \in 1..Len(sys) |-> sys[i][1]]

FaultNow(m) == IF m.n + 1 = m.at THEN m.f ELSE "none"

Tick(m, kind, kinds) ==
    [m EXCEPT !.n = @ + 1, !.hit = @ \/ (FaultNow(m) \in kinds),
              !.trace = Append(@, kind)]

\* LockedBuffer.Bytes
Bytes(b) ==
    IF b.ptr = NULL THEN NilSlice ELSE SliceOf(b.ptr, 0, b.size)

\* Whether a slice lies inside a live mapping.  Mappings are page granular
\* and every length of the model is far below a page, so an access through a
\* pointer into a mapped slot never faults; bytes past len are page slack.
Valid(regs, sl) ==
    \/ sl.len = 0
    \/ /\ sl.ptr # NULL
       /\ regs[sl.ptr].mapped

\* The bytes a slice views (slack reads as zero; so does a faulting access).
Rd(regs, sl) ==
    IF sl.len = 0 THEN <<>>
    ELSE [i \in 1..sl.len |->
            IF Valid(regs, sl) /\ sl.off + i <= regs[sl.ptr].len
            THEN regs[sl.ptr].bytes[sl.off + i] ELSE ZeroByte]

\* An access to sl: a fault (SIGSEGV) when it is not inside a live mapping.
Touch(m, sl) == [m EXCEPT !.segv = @ \/ ~Valid(m.regs, sl)]

\* copy(dst, src): min(len) bytes
Copy(m, dst, bs) ==
    LET k == IF Len(bs) < dst.len THEN Len(bs) ELSE dst.len
    IN  IF k = 0 THEN m
        ELSE IF ~Valid(m.regs, dst) THEN [m EXCEPT !.segv = TRUE]
        ELSE [m EXCEPT !.regs[dst.ptr].bytes =
                 [i \in 1..Len(@) |->
                     IF i > dst.off /\ i <= dst.off + k
                     THEN bs[i - dst.off] ELSE @[i]]]

\* Zero(b []byte)
Zero(m, sl) == Copy(m, sl, Zeros(sl.len))

\* ZeroLocked(b *LockedBuffer)
ZeroLocked(m, b) ==
    IF b.ptr = NULL THEN m ELSE Zero(m, Bytes(b))

\* tryMlock2: the errno of mlock2(MLOCK_ONFAULT), "" for success
tryMlock2(f) ==
    CASE f \in {"ENOSYS", "ENOSYS+mlock"} -> "ENOSYS"
      [] f \in {"EINVAL", "EINVAL+mlock"} -> "EINVAL"
      [] f = "mlock2"                     -> "ENOMEM"
      [] OTHER                            -> ""

\* syscall.Mlock under fault f
Mlock(f) == IF f \in {"ENOSYS+mlock", "EINVAL+mlock"} THEN "ENOMEM" ELSE ""

\* lockMemory: mlock2 first, mlock when mlock2 is missing or refused
lockMemory(f) ==
    LET e == tryMlock2(f)
    IN  IF e = "" THEN ""
        ELSE IF e # "ENOSYS" /\ e # "EINVAL" THEN e
        ELSE Mlock(f)

\* the system calls lockMemory issues under fault f
lockCalls(f) ==
    IF tryMlock2(f) \in {"ENOSYS", "EINVAL"}
    THEN <<<<"mlock2", tryMlock2(f)>>, <<"mlock", Mlock(f)>>>>
    ELSE <<<<"mlock2", tryMlock2(f)>>>>

AllocFaults == Faults \ {"munlock", "munmap", "rand"}

\* allocateLocked dropping the mapping's handle when pinning fails
allocUnmapSkipped(m, r) == m

\* syscall.Munmap(mem) after lockMemory failed
allocUnmap(m, r) ==
    [m EXCEPT !.regs[r] = NoRegion, !.sys = Append(@, <<"munmap", "">>)]

\* syscall.Mmap of allocateLocked: size fresh zero bytes at slot r
allocMmap(m, r, size) ==
    [m EXCEPT !.regs[r] = [mapped |-> TRUE, locked |-> FALSE, len |-> size,
                           bytes |-> Zeros(size)],
              !.sys = Append(@, <<"mmap", "">>)]

\* lockMemory(mem) on the mapping at r under fault f
allocLock(m, r, f) ==
    [m EXCEPT !.regs[r].locked = (lockMemory(f) = ""),
              !.sys = @ \o lockCalls(f)]

\* allocateLocked(size): [m, b, err]
allocateLocked(m, size) ==
    IF size <= 0 THEN [m |-> m, b |-> NilBuf, err |-> "invalid size"]
    ELSE
      LET f    == FaultNow(m)
          m1   == Tick(m, "alloc", AllocFaults)
          free == {r \in Slots : ~m.regs[r].mapped}
      IN  IF f = "mmap" \/ free = {}
          THEN [m |-> [m1 EXCEPT !.oom = @ \/ free = {},
                                 !.sys = Append(@, <<"mmap", "ENOMEM">>)],
                b |-> NilBuf, err |-> "ENOMEM"]
          ELSE IF lockMemory(f) # ""
          THEN [m |-> allocUnmap(allocLock(allocMmap(m1, Min(free), size),
                                           Min(free), f),
                                 Min(free)),
                b |-> NilBuf, err |-> lockMemory(f)]
          ELSE [m |-> allocLock(allocMmap(m1, Min(free), size), Min(free), f),
                b |-> [ptr |-> Min(free), size |-> size],
                err |-> ""]

AllocateLocked(m, size) == allocateLocked(m, size)

\* freeLocked leaving the handle as it was
freeClearSkipped(b) == b

\* b.ptr = nil; b.size = 0 at the end of freeLocked
freeClear(b) == NilBuf

\* syscall.Munmap(mem) of freeLocked and what follows it: m is the machine
\* after unlockMemory succeeded, r the mapping b points into, f the fault met.
\* syscall.Munmap releases a mapping only when handed the slice Mmap
\* returned (same start, same length); otherwise EINVAL.
freeMunmap(m, r, f, b) ==
    IF b.size = 0 \/ ~r.mapped \/ r.len # b.size \/ f = "munmap"
    THEN [m |-> [m EXCEPT !.sys = Append(@, <<"munmap", "EINVAL">>)],
          b |-> freeClear(b), err |-> "EINVAL"]
    ELSE [m |-> [m EXCEPT !.regs[b.ptr] = NoRegion,
                          !.sys = Append(@, <<"munmap", "">>),
                          !.dirty = @ \/ ~AllZero(m.regs[b.ptr].bytes)],
          b |-> freeClear(b), err |-> ""]

\* unlockMemory(mem) of freeLocked and what follows it: m is the machine
\* after Zero(mem)
freeUnlock(m, r, f, b) ==
    IF m.segv THEN [m |-> m, b |-> b, err |-> "SIGSEGV"]
    ELSE IF b.size > 0 /\ (f = "munlock" \/ ~r.mapped)
    THEN [m |-> [m EXCEPT !.sys = Append(@, <<"munlock", "ENOMEM">>)],
          b |-> b, err |-> "ENOMEM"]
    ELSE freeMunmap(IF b.size > 0
                    THEN [m EXCEPT !.regs[b.ptr].locked = FALSE,
                                   !.sys = Append(@, <<"munlock", "">>)]
                    ELSE m,
                    r, f, b)

\* freeLocked handing the memory back as it is
freeZeroSkipped(m, b) == m

\* Zero(mem) of freeLocked
freeZero(m, b) == Zero(m, SliceOf(b.ptr, 0, b.size))

\* freeLocked(b): [m, b, err]
freeLocked(m, b) ==
    IF b.ptr = NULL THEN [m |-> m, b |-> b, err |-> ""]
    ELSE freeUnlock(Tick(freeZero(m, b), "free", {"munlock", "munmap"}),
                    m.regs[b.ptr], FaultNow(m), b)

FreeLocked(m, b) == freeLocked(m, b)

\* internal.FillRandom(b) with the random source giving v
FillRandom(m, sl, v) ==
    IF sl.len = 0 THEN [m |-> m, err |-> ""]
    ELSE IF FaultNow(m) = "rand"
         THEN [m |-> Tick(m, "rand", {"rand"}), err |-> "rand"]
         ELSE [m |-> Copy(Tick(m, "rand", {"rand"}), sl, Fill(sl.len, v)),
               err |-> ""]


(***************************************************************************)
(* Transient crypto holders: the state structs of the standard library's   *)
(* HMAC and AES-GCM objects are copied into locked regions.                *)
(***************************************************************************)
\* copy(dst, src) of allocateToLocked: a is the result of AllocateLocked
copyToLocked(a, st) ==
    IF a.err # "" THEN a ELSE [a EXCEPT !.m = Copy(a.m, Bytes(a.b), st)]

\* allocateToLocked(ptr): a locked copy of the struct whose bytes are st
allocateToLocked(m, st) == copyToLocked(AllocateLocked(m, Len(st)), st)

NilHMAC == [key |-> <<>>, macBuf |-> NilBuf, innerBuf |-> NilBuf,
            outerBuf |-> NilBuf]

\* newHMAC from the move of the HMAC struct on: hm is the result of
\* allocateToLocked(m)
hmacStruct(key, innerBuf, outerBuf, hm) ==
    IF hm.err # ""
    THEN [m |-> FreeLocked(FreeLocked(hm.m, innerBuf).m, outerBuf).m,
          h |-> NilHMAC, err |-> hm.err]
    ELSE [m |-> hm.m,
          h |-> [key |-> key, macBuf |-> hm.b, innerBuf |-> innerBuf,
                 outerBuf |-> outerBuf],
          err |-> ""]

\* newHMAC from the move of the outer hash state on: out is the result of
\* allocateToLocked(outerVal)
hmacOuter(key, innerBuf, out) ==
    IF out.err # ""
    THEN [m |-> FreeLocked(out.m, innerBuf).m, h |-> NilHMAC,
          err |-> out.err]
    ELSE hmacStruct(key, innerBuf, out.b,
                    allocateToLocked(out.m, StateBytes(key)))

\* newHMAC from the move of the inner hash state on: in is the result of
\* allocateToLocked(innerVal)
hmacInner(key, in) ==
    IF in.err # "" THEN [m |-> in.m, h |-> NilHMAC, err |-> in.err]
    ELSE hmacOuter(key, in.b, allocateToLocked(in.m, StateBytes(key)))

\* newHMAC(key): [m, h, err]
newHMAC(m, key) == hmacInner(key, allocateToLocked(m, StateBytes(key)))

\* if IntegrityCheck { h2, err := newHMAC(dk) ... }
newHMACIf(ic, m, key) ==
    IF ic THEN newHMAC(m, key) ELSE [m |-> m, h |-> NilHMAC, err |-> ""]

\* lockedHMAC.Destroy (every caller drops its error)
hmacDestroy(m, h) ==
    LET z  == ZeroLocked(m, h.macBuf)
        f1 == FreeLocked(z, h.macBuf)
        f2 == FreeLocked(f1.m, h.innerBuf)
        f3 == FreeLocked(f2.m, h.outerBuf)
    IN  f3.m

NilAEAD == [key |-> <<>>, blockBuf |-> NilBuf, aeadBuf |-> NilBuf]

\* newAEAD from the move of the GCM state on: gcm is the result of
\* allocateToLocked(gcm)
aeadGCM(key, blockBuf, gcm) ==
    IF gcm.err # ""
    THEN [m |-> FreeLocked(gcm.m, blockBuf).m, a |-> NilAEAD,
          err |-> gcm.err]
    ELSE [m |-> gcm.m,
          a |-> [key |-> key, blockBuf |-> blockBuf, aeadBuf |-> gcm.b],
          err |-> ""]

\* newAEAD from the move of the block state on: blk is the result of
\* allocateToLocked(block)
aeadBlock(key, blk) ==
    IF blk.err # "" THEN [m |-> blk.m, a |-> NilAEAD, err |-> blk.err]
    ELSE aeadGCM(key, blk.b, allocateToLocked(blk.m, StateBytes(key)))

\* newAEAD(key): [m, a, err]
newAEAD(m, key) ==
    IF Len(key) \notin {16, 24, 32}
    THEN [m |-> m, a |-> NilAEAD, err |-> "invalid key size"]
    ELSE aeadBlock(key, allocateToLocked(m, StateBytes(key)))

\* lockedAEAD.Destroy
aeadDestroy(m, a) ==
    LET z  == ZeroLocked(m, a.aeadBuf)
        f1 == FreeLocked(z, a.aeadBuf)
        f2 == FreeLocked(f1.m, a.blockBuf)
    IN  f2.m

(***************************************************************************)
(* The master key (mlocker.go).                                            *)
(***************************************************************************)
\* Init from FillRandom on: b is the key's region, fr the result of FillRandom
initFill(b, fr) ==
    IF fr.err # ""
    THEN [m |-> [FreeLocked(fr.m, b).m EXCEPT !.once = TRUE],
          err |-> fr.err]
    ELSE [m |-> [fr.m EXCEPT !.once = TRUE, !.masterBuf = b,
                             !.masterKey = b.ptr],
          err |-> ""]

\* Init from AllocateLocked on: a is its result
initAlloc(a, v) ==
    IF a.err # "" THEN [m |-> [a.m EXCEPT !.once = TRUE], err |-> a.err]
    ELSE initFill(a.b, FillRandom(a.m, Bytes(a.b), v))

\* a sync.Once that runs its function on every call
onceNever(m) == FALSE

\* once.Do(f): f has been run before
onceDone(m) == m.once

\* Init with the random source giving v: [m, err].  sync.Once marks the body
\* as run whatever it did.
InitRun(m, v) ==
    IF onceDone(m) THEN [m |-> m, err |-> ""]
    ELSE initAlloc(AllocateLocked(m, keyLen), v)

\* Shutdown leaving the latch as it is
onceKept(m) == m

\* once = sync.Once{}
onceReset(m) == [m EXCEPT !.once = FALSE]

\* Shutdown from FreeLocked on: fr is its result
shutdownFree(fr) ==
    [m |-> onceReset([fr.m EXCEPT !.masterBuf = NilBuf, !.masterKey = NULL]),
     err |-> fr.err]

\* Shutdown: [m, err]
ShutdownRun(m) ==
    IF m.masterBuf = NilBuf THEN [m |-> m, err |-> ""]
    ELSE shutdownFree(FreeLocked(ZeroLocked(m, m.masterBuf), m.masterBuf))

\* masterKeyBytes: the slice over the key, nil when there is none
masterKeySlice(m) ==
    IF m.masterKey = NULL THEN NilSlice ELSE SliceOf(m.masterKey, 0, keyLen)


(***************************************************************************)
(* SecureBuffer (buffer.go).  s.mem is a pointer: "nil" or "env", the      *)
(* LockedBuffer object of the envelope, kept in the variable env.          *)
(***************************************************************************)
NoSB == [mem |-> "nil", salt |-> NilSlice, nonce |-> NilSlice,
         ciphertext |-> NilSlice, mac |-> NilSlice, timer |-> 0,
         destroyed |-> FALSE]

\* The caller's plaintext: a Go slice over the heap (its bytes) or over a
\* locked region (a slice of regs).
HeapData(bs) == [locked |-> FALSE, sl |-> NilSlice, bytes |-> bs]
LockedData(sl) == [locked |-> TRUE, sl |-> sl, bytes |-> <<>>]
DataLen(d) == IF d.locked THEN d.sl.len ELSE Len(d.bytes)
DataBytes(m, d) == IF d.locked THEN Rd(m.regs, d.sl) ELSE d.bytes

\* EncryptToMemory without its Zero(data)
ZeroDataSkipped(m, d) == [m |-> m, d |-> d]

\* Zero(data) in EncryptToMemory
ZeroData(m, d) ==
    IF d.locked THEN [m |-> Zero(m, d.sl), d |-> d]
    ELSE [m |-> m, d |-> HeapData(Zeros(Len(d.bytes)))]

\* total at buffer.go:84-87
EnvelopeLen(n, ic) ==
    saltLen + nonceLen + (n + Overhead) + (IF ic THEN macLen ELSE 0)

\* The four fields of the envelope at ptr holding a ciphertext of ctLen bytes
\* (buffer.go:90-101).
EnvSalt(ptr) == SliceOf(ptr, 0, saltLen)
\* the nonce view taken at the start of the envelope, over the salt
EnvNonceOverSalt(ptr) == SliceOf(ptr, 0, nonceLen)

EnvNonce(ptr) == SliceOf(ptr, saltLen, nonceLen)
EnvCiphertext(ptr, ctLen) == SliceOf(ptr, saltLen + nonceLen, ctLen)
EnvMac(ptr, ctLen) == SliceOf(ptr, saltLen + nonceLen + ctLen, macLen)

\* ZeroLocked(b); FreeLocked(b) with the error dropped
ZeroAndFree(m, b) == FreeLocked(ZeroLocked(m, b), b).m

\* A call that did nothing but succeed.
Done(m) == [m |-> m, err |-> ""]

(***************************************************************************)
(* EncryptToMemory(data), statement by statement.  Each step takes the     *)
(* locals c of the call and the result x of the call made just before it;  *)
(* a step is defined after the step that follows it in the code.           *)
(***************************************************************************)
EncryptLocals(d0, ic, rs, rn) ==
    [d |-> d0, ic |-> ic, rs |-> rs, rn |-> rn, ptBuf |-> NilBuf,
     saltBuf |-> NilBuf, mk |-> <<>>, salt |-> <<>>, h |-> NilHMAC,
     dkBuf |-> NilBuf, dk |-> <<>>, aead |-> NilAEAD, buf |-> NilBuf,
     nonce |-> <<>>, ct |-> <<>>]

\* return SecureBuffer{}, err
EncryptFail(m, e, d) ==
    [m |-> m, err |-> e, sb |-> NoSB, env |-> NilBuf, d |-> d]

\* buffer.go:117-143: x is the result of newHMAC(dk) when IntegrityCheck
EncryptMac(c, x) ==
    IF x.err # ""
    THEN EncryptFail(ZeroAndFree(FreeLocked(x.m, c.buf).m, c.dkBuf), x.err, c.d)
    ELSE
      LET ctLen == DataLen(c.d) + Overhead
          ptr   == c.buf.ptr
          m7    == IF c.ic
                   THEN hmacDestroy(
                            Copy(x.m, EnvMac(ptr, ctLen),
                                 HMACSum(c.dk, c.nonce \o c.ct)), x.h)
                   ELSE x.m
      IN  [m |-> ZeroAndFree(m7, c.dkBuf), err |-> "", env |-> c.buf,
           d |-> c.d,
           sb |-> [mem |-> "env", salt |-> EnvSalt(ptr),
                   nonce |-> EnvNonce(ptr),
                   ciphertext |-> EnvCiphertext(ptr, ctLen),
                   mac |-> IF c.ic THEN EnvMac(ptr, ctLen) ELSE NilSlice,
                   timer |-> 0, destroyed |-> FALSE]]

\* buffer.go:112-116: Seal, aead.Destroy, wipe and free the plaintext copy;
\* x is the machine after the nonce was drawn
EncryptSeal(c, x) ==
    LET ct == AEADSeal(c.aead.key, c.nonce, Rd(x.m.regs, Bytes(c.ptBuf)))
    IN  EncryptMac(
            [c EXCEPT !.ct = ct],
            newHMACIf(
                c.ic,
                ZeroAndFree(
                    aeadDestroy(
                        Copy(x.m, EnvCiphertext(c.buf.ptr, Len(ct)), ct),
                        c.aead),
                    c.ptBuf),
                c.dk))

\* buffer.go:103-111: x is the result of FillRandom(nonce)
EncryptNonce(c, x) ==
    IF x.err # ""
    THEN EncryptFail(ZeroAndFree(FreeLocked(x.m, c.buf).m, c.dkBuf), x.err, c.d)
    ELSE EncryptSeal([c EXCEPT !.nonce = Rd(x.m.regs, EnvNonce(c.buf.ptr))],
                     Done(x.m))

\* buffer.go:88-103: x is the result of AllocateLocked(total)
EncryptEnvelope(c, x) ==
    IF x.err # ""
    THEN EncryptFail(ZeroAndFree(FreeLocked(x.m, c.saltBuf).m, c.dkBuf),
                     x.err, c.d)
    ELSE EncryptNonce([c EXCEPT !.buf = x.b],
                      FillRandom(
                          ZeroAndFree(Copy(x.m, EnvSalt(x.b.ptr), c.salt),
                                      c.saltBuf),
                          EnvNonce(x.b.ptr), c.rn))

\* buffer.go:71-88: x is the result of newAEAD(dk)
EncryptCipher(c, x) ==
    IF x.err # ""
    THEN EncryptFail(ZeroAndFree(FreeLocked(x.m, c.saltBuf).m, c.dkBuf),
                     x.err, c.d)
    ELSE EncryptEnvelope([c EXCEPT !.aead = x.a],
                         AllocateLocked(x.m, EnvelopeLen(DataLen(c.d), c.ic)))

\* buffer.go:63-71: x is the result of AllocateLocked(32) for the derived key
EncryptDeriveKey(c, x) ==
    IF x.err # ""
    THEN EncryptFail(hmacDestroy(FreeLocked(x.m, c.saltBuf).m, c.h), x.err,
                     c.d)
    ELSE
      LET dk == HMACSum(c.mk, c.salt)
      IN  EncryptCipher([c EXCEPT !.dkBuf = x.b, !.dk = dk],
                        newAEAD(hmacDestroy(Copy(x.m, Bytes(x.b), dk), c.h),
                                dk))

\* buffer.go:57-63: x is the result of newHMAC(masterKeyBytes())
EncryptDeriveHMAC(c, x) ==
    IF x.err # ""
    THEN EncryptFail(FreeLocked(x.m, c.saltBuf).m, x.err, c.d)
    ELSE EncryptDeriveKey(
             [c EXCEPT !.h = x.h, !.salt = Rd(x.m.regs, Bytes(c.saltBuf))],
             AllocateLocked(x.m, keyLen))

\* buffer.go:52-57: x is the result of FillRandom(salt)
EncryptFillSalt(c, x) ==
    IF x.err # ""
    THEN EncryptFail(FreeLocked(x.m, c.saltBuf).m, x.err, c.d)
    ELSE
      LET mks == masterKeySlice(x.m)
          mk  == Rd(x.m.regs, mks)
      IN  EncryptDeriveHMAC([c EXCEPT !.mk = mk],
                            newHMAC(Touch(x.m, mks), mk))

\* buffer.go:48-52: x is the result of AllocateLocked(saltLen)
EncryptSalt(c, x) ==
    IF x.err # ""
    THEN EncryptFail(x.m, x.err, c.d)
    ELSE EncryptFillSalt([c EXCEPT !.saltBuf = x.b],
                         FillRandom(x.m, Bytes(x.b), c.rs))

\* buffer.go:41-48: x is the result of AllocateLocked(len(data))
EncryptCopyIn(c, x) ==
    IF x.err # ""
    THEN EncryptFail(x.m, x.err, c.d)
    ELSE
      LET zd == ZeroData(Copy(Touch(x.m, c.d.sl), Bytes(x.b),
                              DataBytes(x.m, c.d)), c.d)
      IN  EncryptSalt([c EXCEPT !.ptBuf = x.b, !.d = zd.d],
                      AllocateLocked(zd.m, saltLen))

\* buffer.go:35-41: x is the result of Init() when there is no master key
EncryptStart(c, x) ==
    IF x.err # ""
    THEN EncryptFail(x.m, x.err, c.d)
    ELSE EncryptCopyIn(c, AllocateLocked(x.m, DataLen(c.d)))

\* EncryptToMemory(data) with IntegrityCheck = ic and the random source
\* giving rk, rs, rn to the master key, the salt and the nonce:
\* [m, err, sb, env, d]
EncryptToMemoryRun(m0, d0, ic, rk, rs, rn) ==
    EncryptStart(EncryptLocals(d0, ic, rs, rn),
                 IF m0.masterKey = NULL THEN InitRun(m0, rk) ELSE Done(m0))

\* if ZeroPlaintext { ZeroLocked(data) }; return sb, err
encryptLockedZero(e, b, zp) ==
    IF zp THEN [e EXCEPT !.m = ZeroLocked(e.m, b)] ELSE e

\* EncryptLocked(data) for a non-nil data with ZeroPlaintext = zp
EncryptLockedRun(m0, b, zp, ic, rk, rs, rn) ==
    encryptLockedZero(
        EncryptToMemoryRun(m0, LockedData(Bytes(b)), ic, rk, rs, rn), b, zp)


\* Decrypt without its check of s.destroyed
DecryptGuardOff(sb) == FALSE

\* if s.destroyed { return ... } at the head of Decrypt
DecryptGuard(sb) == sb.destroyed

\* Decrypt accepting whatever mac is stored
MacMismatchIgnored(dkv, nonce, ct, mac) == FALSE

\* the comparison of the stored mac with the recomputed one in Decrypt
MacMismatch(dkv, nonce, ct, mac) ==
    ~HMACEqual(HMACSum(dkv, nonce \o ct), mac)

\* Decrypt returning the region at the size of the ciphertext
TruncateSkipped(b, n) == b

\* ptBuf.size = len(decrypted)
Truncate(b, n) == [b EXCEPT !.size = n]

(***************************************************************************)
(* SecureBuffer.Decrypt, statement by statement, in the manner of          *)
(* EncryptToMemory above.                                                  *)
(***************************************************************************)
DecryptLocals(sb, ic) ==
    [sb |-> sb, ic |-> ic, mk |-> <<>>, h |-> NilHMAC, salt |-> <<>>,
     dkBuf |-> NilBuf, dk |-> <<>>, aead |-> NilAEAD]

\* return nil, err
DecryptFail(m, e) == [m |-> m, err |-> e, pt |-> NilBuf]

\* buffer.go:210-216: o is the result of aead.Open, m the machine after
\* aead.Destroy()
DecryptFinish(ptBuf, o, m) ==
    IF ~o.ok
    THEN DecryptFail(FreeLocked(Zero(m, Bytes(ptBuf)), ptBuf).m,
                     "message authentication failed")
    ELSE [m |-> Copy(m, Bytes(ptBuf), o.pt), err |-> "",
          pt |-> Truncate(ptBuf, Len(o.pt))]

\* buffer.go:203-209: x is the result of AllocateLocked(len(s.ciphertext))
DecryptOpen(c, x) ==
    IF x.err # "" THEN DecryptFail(x.m, x.err)
    ELSE
      DecryptFinish(
          x.b,
          AEADOpen(c.aead.key, Rd(x.m.regs, c.sb.nonce),
                   Rd(x.m.regs, c.sb.ciphertext)),
          aeadDestroy(Touch(Touch(x.m, c.sb.nonce), c.sb.ciphertext),
                      c.aead))

\* buffer.go:196-203: x is the result of newAEAD(dk)
DecryptCipher(c, x) ==
    IF x.err # "" THEN DecryptFail(ZeroAndFree(x.m, c.dkBuf), x.err)
    ELSE DecryptOpen([c EXCEPT !.aead = x.a],
                     AllocateLocked(ZeroAndFree(x.m, c.dkBuf),
                                    c.sb.ciphertext.len))

\* h2.Write(s.nonce); h2.Write(s.ciphertext); hmac.Equal(..., s.mac): the
\* reads of the envelope
TouchEnvelope(m, sb) ==
    Touch(Touch(Touch(m, sb.nonce), sb.ciphertext), sb.mac)

\* buffer.go:178-196: x is the result of newHMAC(dk) when IntegrityCheck
DecryptVerify(c, x) ==
    IF x.err # "" THEN DecryptFail(ZeroAndFree(x.m, c.dkBuf), x.err)
    ELSE IF c.ic /\ MacMismatch(c.dk, Rd(x.m.regs, c.sb.nonce),
                                Rd(x.m.regs, c.sb.ciphertext),
                                Rd(x.m.regs, c.sb.mac))
    THEN DecryptFail(
             hmacDestroy(ZeroAndFree(TouchEnvelope(x.m, c.sb), c.dkBuf),
                         x.h),
             "integrity check failed")
    ELSE DecryptCipher(
             c, newAEAD(IF c.ic
                        THEN hmacDestroy(TouchEnvelope(x.m, c.sb), x.h)
                        ELSE x.m,
                        c.dk))

\* buffer.go:171-178: x is the result of AllocateLocked(32)
DecryptDeriveKey(c, x) ==
    IF x.err # "" THEN DecryptFail(hmacDestroy(x.m, c.h), x.err)
    ELSE
      LET dk == HMACSum(c.mk, c.salt)
      IN  DecryptVerify(
              [c EXCEPT !.dkBuf = x.b, !.dk = dk],
              newHMACIf(c.ic,
                        hmacDestroy(Copy(x.m, Bytes(x.b), dk), c.h), dk))

\* buffer.go:166-171: x is the result of newHMAC(masterKeyBytes())
DecryptDerive(c, x) ==
    IF x.err # "" THEN DecryptFail(x.m, x.err)
    ELSE DecryptDeriveKey([c EXCEPT !.h = x.h,
                                    !.salt = Rd(x.m.regs, c.sb.salt)],
                          AllocateLocked(Touch(x.m, c.sb.salt), keyLen))

\* SecureBuffer.Decrypt: [m, err, pt] with pt the returned *LockedBuffer
DecryptRun(m0, sb, ic) ==
    IF DecryptGuard(sb) THEN DecryptFail(m0, "buffer destroyed")
    ELSE
      LET mks == masterKeySlice(m0)
          mk  == Rd(m0.regs, mks)
      IN  DecryptDerive([DecryptLocals(sb, ic) EXCEPT !.mk = mk],
                        newHMAC(Touch(m0, mks), mk))

\* Use from the return of s.Decrypt() on: d is its result
useDecrypted(d, cbErr) ==
    IF d.err # ""
    THEN [m |-> d.m, err |-> d.err, calls |-> 0, arg |-> <<>>, ptr |-> NULL]
    ELSE [m |-> FreeLocked(ZeroLocked(d.m, d.pt), d.pt).m, err |-> cbErr,
          calls |-> 1, arg |-> Rd(d.m.regs, Bytes(d.pt)), ptr |-> d.pt.ptr]

\* SecureBuffer.Use(fn) with a callback that returns cbErr:
\* [m, err, calls, arg, ptr] with calls and arg the invocations of fn and
\* the bytes it was given, ptr the address of the plaintext region
UseRun(m0, sb, ic, fnNil, cbErr) ==
    IF fnNil
    THEN [m |-> m0, err |-> "nil function", calls |-> 0, arg |-> <<>>,
          ptr |-> NULL]
    ELSE useDecrypted(DecryptRun(m0, sb, ic), cbErr)


(***************************************************************************)
(* The integrity block of Destroy (if IntegrityCheck { ... }), statement   *)
(* by statement: [m, early, err, ierr]; early: Destroy returns err from    *)
(* inside the block.                                                       *)
(***************************************************************************)
\* return err
DestroyEarly(m, e) == [m |-> m, early |-> TRUE, err |-> e, ierr |-> FALSE]

\* buffer.go:275-288: x is the result of newHMAC(dk)
DestroyCheck(c, x) ==
    IF x.err # "" THEN DestroyEarly(ZeroAndFree(x.m, c.dkBuf), x.err)
    ELSE
      [m |-> ZeroAndFree(hmacDestroy(TouchEnvelope(x.m, c.sb), x.h),
                         c.dkBuf),
       early |-> FALSE, err |-> "",
       ierr |-> ~HMACEqual(HMACSum(c.dk, Rd(x.m.regs, c.sb.nonce)
                                           \o Rd(x.m.regs, c.sb.ciphertext)),
                           Rd(x.m.regs, c.sb.mac))]

\* buffer.go:268-275: x is the result of AllocateLocked(32)
DestroyDeriveKey(c, x) ==
    IF x.err # "" THEN DestroyEarly(hmacDestroy(x.m, c.h), x.err)
    ELSE
      LET dk == HMACSum(c.mk, c.salt)
      IN  DestroyCheck([c EXCEPT !.dkBuf = x.b, !.dk = dk],
                       newHMAC(hmacDestroy(Copy(x.m, Bytes(x.b), dk), c.h),
                               dk))

\* buffer.go:263-268: x is the result of newHMAC(masterKeyBytes())
DestroyDerive(c, x) ==
    IF x.err # "" THEN DestroyEarly(x.m, x.err)
    ELSE DestroyDeriveKey([c EXCEPT !.h = x.h,
                                    !.salt = Rd(x.m.regs, c.sb.salt)],
                          AllocateLocked(Touch(x.m, c.sb.salt), keyLen))

DestroyIntegrity(m0, sb) ==
    LET mks == masterKeySlice(m0)
        mk  == Rd(m0.regs, mks)
    IN  DestroyDerive([DecryptLocals(sb, TRUE) EXCEPT !.mk = mk],
                      newHMAC(Touch(m0, mks), mk))

\* errors.Join(errUnlock, integrityErr) as Destroy returns it
JoinErr(uerr, ierr) ==
    IF uerr = "" /\ ~ierr THEN ""
    ELSE IF uerr = "" THEN "integrity check failed"
    ELSE IF ~ierr THEN uerr
    ELSE "release and integrity check failed"

(***************************************************************************)
(* The state.                                                              *)
(***************************************************************************)
VARIABLES
    regs,            \* the process's mappings
    masterKey,       \* mlocker.go: masterKey (address of the key, or NULL)
    masterBuf,       \* mlocker.go: masterBuf
    once,            \* mlocker.go: once has run
    keyRegs,         \* mappings Init bound as the master key, still mapped
    ZeroPlaintext,   \* mlocker.go: ZeroPlaintext
    IntegrityCheck,  \* mlocker.go: IntegrityCheck
    src,             \* the caller's *LockedBuffer holding a plaintext
    s,               \* the caller's SecureBuffer
    made,            \* s was returned by a successful encrypt call
    encrypts,        \* encrypt calls made so far
    env,             \* the LockedBuffer object s.mem points to
    pt,              \* the *LockedBuffer the caller got from Decrypt
    timers,          \* runtime timers: "unused", "armed", "stopped", "fired"
    pc,              \* where the caller (0) and each timer goroutine are
    loc,             \* locals of a Destroy call in progress, per thread
    crashed,         \* the process died of SIGSEGV
    last,            \* the caller's last returned call and what it saw
    tret,            \* what each timer goroutine's Destroy returned
    faults,          \* operating-system calls that have failed so far
    tampers,         \* envelope bytes changed from outside so far
    sealed,          \* what the successful encrypt call produced
    envLive,         \* the envelope's mapping still exists
    unmaps,          \* mappings released through the envelope's handle
    stale,           \* the envelope's address was used after its release
    srcFreed,        \* FreeLocked has cleared the caller's handle src
    onceMu,          \* mlocker.go: the mutex inside once is held
    keyCleared       \* masterBuf points to a LockedBuffer freeLocked cleared

memVars == <<regs, masterKey, masterBuf, once, keyRegs>>
cfgVars == <<ZeroPlaintext, IntegrityCheck>>
bufVars == <<s, made, encrypts, env, sealed, envLive>>
thrVars == <<timers, pc, loc, tret>>
histVars == <<unmaps, stale, srcFreed>>
latchVars == <<onceMu, keyCleared>>
vars == <<regs, masterKey, masterBuf, once, keyRegs, ZeroPlaintext,
          IntegrityCheck, src, s, made, encrypts, env, pt, timers, pc, loc,
          crashed, last, tret, faults, tampers, sealed, envLive, unmaps, stale,
          srcFreed, onceMu, keyCleared>>

TimerIds == 1..MaxTimers
Threads == 0..MaxTimers
RandBytes == 1..MaxRand

\* The plaintext of length n used by the callers of the model: byte i is a
\* value the random source never gives.
PlaintextOfLen(n) == [i \in 1..n |-> Plain(MaxRand + i)]
Plaintexts == {PlaintextOfLen(n) : n \in 0..MaxLen}

NoLoc == [mem |-> NilSlice, ierr |-> FALSE, uerr |-> "", hit |-> FALSE,
          dirty |-> FALSE, gone |-> FALSE,
          pre |-> [destroyed |-> FALSE, diff |-> 0, key |-> FALSE,
                   ic |-> FALSE, quiet |-> FALSE]]

NoRet == [op |-> "", err |-> "", hit |-> FALSE, n |-> 0, pre |-> NoLoc.pre,
          calls |-> 0, cb |-> "", arg |-> <<>>, data |-> <<>>,
          live |-> FALSE, zero |-> FALSE, grew |-> 0, timer |-> 0,
          sys |-> <<>>, dirty |-> FALSE, new |-> {}, bound |-> FALSE,
          freed |-> FALSE, cleared |-> FALSE]

NoSeal == [plain |-> <<>>, bytes |-> <<>>, key |-> <<>>, ic |-> FALSE,
           at |-> NULL]

Init ==
    /\ regs = [r \in Slots |-> NoRegion]
    /\ masterKey = NULL
    /\ masterBuf = NilBuf
    /\ once = FALSE
    /\ keyRegs = {}
    /\ ZeroPlaintext = FALSE
    /\ IntegrityCheck = TRUE
    /\ src = NilBuf
    /\ s = NoSB
    /\ made = FALSE
    /\ encrypts = 0
    /\ env = NilBuf
    /\ pt = NilBuf
    /\ timers = [k \in TimerIds |-> "unused"]
    /\ pc = [t \in Threads |-> "idle"]
    /\ loc = [t \in Threads |-> NoLoc]
    /\ crashed = FALSE
    /\ last = NoRet
    /\ tret = [k \in TimerIds |-> "none"]
    /\ faults = 0
    /\ tampers = 0
    /\ sealed = NoSeal
    /\ envLive = FALSE
    /\ unmaps = 0
    /\ stale = FALSE
    /\ srcFreed = FALSE
    /\ onceMu = FALSE
    /\ keyCleared = FALSE

(***************************************************************************)
(* Running library code from the current state.                            *)
(***************************************************************************)
\* The failures the environment may give to a call of each kind.
KindFaults(kind) ==
    CASE kind = "alloc" -> AllocFaults
      [] kind = "free"  -> {"munlock", "munmap"}
      [] kind = "rand"  -> {"rand"}

\* A run may still meet a failing operating-system call.
MayFail == tampers = 0 /\ faults < MaxFaults

NoFault == <<0, "none">>

\* The ways one call of the library may go: without a failure, or with the
\* i-th operating-system call of its failure-free run meeting one of the
\* failures fs.
Plans(trace, fs) ==
    {NoFault} \cup
    (IF MayFail /\ fs # {}
     THEN UNION {{<<i, f>> : f \in KindFaults(trace[i]) \cap fs} :
                    i \in 1..Len(trace)}
     ELSE {})

Now(plan) == Machine(regs, masterKey, masterBuf, once, plan[1], plan[2])

Failed(m) == m.hit \/ m.oom

Commit(m) ==
    /\ regs' = m.regs
    /\ masterKey' = m.masterKey
    /\ masterBuf' = m.masterBuf
    /\ once' = m.once
    /\ keyRegs' = {r \in keyRegs \cup ({m.masterKey} \ {NULL}) :
                       m.regs[r].mapped}
    /\ faults' = faults + (IF m.hit THEN 1 ELSE 0)
    /\ crashed' = m.segv

CallerIdle == ~crashed /\ pc[0] = "idle"

\* The envelope bytes that differ from what encrypt wrote.
Diff ==
    IF envLive
    THEN Cardinality({i \in 1..Len(sealed.bytes) :
                         regs[sealed.at].bytes[i] # sealed.bytes[i]})
    ELSE 0

\* The master key is the one the envelope was sealed under.
SameKey ==
    /\ masterKey # NULL
    /\ regs[masterKey].mapped
    /\ regs[masterKey].bytes = sealed.key

\* No timer is pending and no Destroy is in progress.
Quiet ==
    /\ \A k \in TimerIds : timers[k] # "armed"
    /\ \A t \in Threads : pc[t] = "idle"

Before ==
    [destroyed |-> s.destroyed, diff |-> Diff, key |-> SameKey,
     ic |-> IntegrityCheck, quiet |-> Quiet]

\* The mappings a state holds.
Mapped(rg) == {r \in Slots : rg[r].mapped}

\* What the caller's call op saw: its error, whether an operating-system
\* call failed in it, how many it made, the state it started from, and by
\* how many mappings it left the process larger.
Ret(op, err, m) ==
    [NoRet EXCEPT !.op = op, !.err = err, !.hit = Failed(m),
                  !.n = Len(m.trace), !.pre = Before,
                  !.grew = Cardinality(Mapped(m.regs))
                           - Cardinality(Mapped(regs)),
                  !.sys = m.sys, !.dirty = m.dirty,
                  !.new = Mapped(m.regs) \ Mapped(regs),
                  !.bound = (masterKey = NULL /\ m.masterKey # NULL)]
(***************************************************************************)
(* Configuration and the master key.                                       *)
(***************************************************************************)
\* The program sets the package flags before it makes its first call.
Fresh == ~crashed /\ last.op = ""

SetZeroPlaintext(b) ==
    /\ Fresh
    /\ ZeroPlaintext # b
    /\ ZeroPlaintext' = b
    /\ UNCHANGED <<memVars, latchVars, IntegrityCheck, src, bufVars, pt, thrVars,
                   crashed, last, faults, tampers, histVars>>

SetIntegrityCheck(b) ==
    /\ Fresh
    /\ IntegrityCheck # b
    /\ IntegrityCheck' = b
    /\ UNCHANGED <<memVars, latchVars, ZeroPlaintext, src, bufVars, pt, thrVars,
                   crashed, last, faults, tampers, histVars>>

\* The region b points to is gone or holds only zero bytes.
Wiped(rg, b) ==
    b.ptr # NULL /\ (rg[b.ptr].mapped => AllZero(rg[b.ptr].bytes))

\* The call op returned r to the caller.
Returned(op, r) ==
    /\ Commit(r.m)
    /\ last' = Ret(op, r.err, r.m)

\* Init returned r with the random source giving v: live tells that a master
\* key was bound before the call, data is the key after it
InitReturned(r, v) ==
    /\ Commit(r.m)
    /\ last' = [Ret("Init", r.err, r.m) EXCEPT
                   !.arg = Fill(keyLen, v),
                   !.data = Rd(r.m.regs, masterKeySlice(r.m)),
                   !.live = masterBuf # NilBuf]

\* Shutdown returned r: live tells that a master key was bound before the
\* call, zero that its region is gone or all zero after it
ShutdownReturned(r) ==
    /\ Commit(r.m)
    /\ last' = [Ret("Shutdown", r.err, r.m) EXCEPT
                   !.live = masterBuf # NilBuf,
                   !.zero = Wiped(r.m.regs, masterBuf)]

InitCall(fs) ==
    /\ CallerIdle
    /\ \E v \in RandBytes :
       \E plan \in Plans(InitRun(Now(NoFault), v).m.trace, fs) :
         InitReturned(InitRun(Now(plan), v), v)
    /\ UNCHANGED <<cfgVars, latchVars, src, bufVars, pt, thrVars, tampers, histVars>>

ShutdownCall(fs) ==
    /\ CallerIdle
    /\ \E plan \in Plans(ShutdownRun(Now(NoFault)).m.trace, fs) :
         ShutdownReturned(ShutdownRun(Now(plan)))
    /\ UNCHANGED <<cfgVars, latchVars, src, bufVars, pt, thrVars, tampers, histVars>>

(***************************************************************************)
(* The caller's own locked buffer.                                         *)
(***************************************************************************)
\* buf, err := AllocateLocked(n); copy(buf.Bytes(), plaintext)
AllocateSource(n, fs) ==
    /\ CallerIdle
    /\ src = NilBuf
    /\ \E plan \in {NoFault} \cup
                   (IF MayFail /\ n > 0
                    THEN {<<1, f>> : f \in AllocFaults \cap fs} ELSE {}) :
         LET a == AllocateLocked(Now(plan), n)
             m == IF a.err = ""
                  THEN Copy(a.m, Bytes(a.b), PlaintextOfLen(n)) ELSE a.m
         IN  /\ Commit(m)
             /\ src' = a.b
             /\ last' = [Ret("AllocateLocked", a.err, m) EXCEPT
                            !.arg = PlaintextOfLen(n),
                            !.live = a.b.ptr # NULL]
    /\ srcFreed' = FALSE
    /\ UNCHANGED <<cfgVars, latchVars, bufVars, pt, thrVars, tampers, unmaps, stale>>

\* FreeLocked(buf), on a live handle or on one FreeLocked has cleared
FreeSource(fs) ==
    /\ CallerIdle
    /\ src # NilBuf \/ srcFreed
    /\ \E plan \in Plans(FreeLocked(Now(NoFault), src).m.trace, fs) :
         LET f == FreeLocked(Now(plan), src)
         IN  /\ Commit(f.m)
             /\ src' = f.b
             /\ srcFreed' = (srcFreed \/ f.b.ptr = NULL)
             /\ last' = [Ret("FreeLocked", f.err, f.m) EXCEPT
                            !.data = Rd(regs, Bytes(src)),
                            !.zero = Wiped(f.m.regs, src),
                            !.freed = srcFreed,
                            !.cleared = (f.b.size = 0
                                         /\ Bytes(f.b) = NilSlice)]
    /\ UNCHANGED <<cfgVars, latchVars, bufVars, pt, thrVars, tampers, unmaps, stale>>

\* ZeroLocked(buf), on a live handle or on one FreeLocked has cleared
ZeroSource ==
    /\ CallerIdle
    /\ src # NilBuf \/ srcFreed
    /\ Commit(ZeroLocked(Now(NoFault), src))
    /\ last' = [Ret("ZeroLocked", "", ZeroLocked(Now(NoFault), src)) EXCEPT
                   !.zero = Wiped(ZeroLocked(Now(NoFault), src).regs, src),
                   !.freed = srcFreed]
    /\ UNCHANGED <<cfgVars, latchVars, src, bufVars, pt, thrVars, tampers, histVars>>

(***************************************************************************)
(* Encrypt.                                                                *)
(***************************************************************************)
\* What a returned encrypt call leaves in the caller's hands.
Encrypted(e, P) ==
    /\ encrypts' = encrypts + 1
    /\ IF e.err = ""
       THEN /\ s' = e.sb
            /\ made' = TRUE
            /\ env' = e.env
            /\ envLive' = TRUE
            /\ sealed' = [plain |-> P, bytes |-> e.m.regs[e.env.ptr].bytes,
                          key |-> Rd(e.m.regs, masterKeySlice(e.m)),
                          ic |-> IntegrityCheck, at |-> e.env.ptr]
       ELSE UNCHANGED <<s, made, env, sealed, envLive>>

EncryptToMemoryReturned(e, P) ==
    /\ Commit(e.m)
    /\ Encrypted(e, P)
    /\ last' = [Ret("EncryptToMemory", e.err, e.m) EXCEPT
                   !.arg = P, !.data = e.d.bytes]

EncryptLockedReturned(e, P) ==
    /\ Commit(e.m)
    /\ Encrypted(e, P)
    /\ last' = [Ret("EncryptLocked", e.err, e.m) EXCEPT
                   !.arg = P, !.data = Rd(e.m.regs, Bytes(src))]

EncryptToMemoryCall(P, fs) ==
    /\ CallerIdle
    /\ ~made
    /\ encrypts < MaxEncrypt
    /\ \E rk \in RandBytes, rs \in RandBytes, rn \in RandBytes :
       \E plan \in Plans(EncryptToMemoryRun(Now(NoFault), HeapData(P),
                             IntegrityCheck, rk, rs, rn).m.trace, fs) :
         EncryptToMemoryReturned(
             EncryptToMemoryRun(Now(plan), HeapData(P), IntegrityCheck,
                                rk, rs, rn), P)
    /\ UNCHANGED <<cfgVars, latchVars, src, pt, thrVars, tampers, histVars>>

EncryptLockedCall(isNil, fs) ==
    /\ CallerIdle
    /\ ~made
    /\ encrypts < MaxEncrypt
    /\ IF isNil
       THEN /\ last' = Ret("EncryptLocked", "nil input", Now(NoFault))
            /\ encrypts' = encrypts + 1
            /\ UNCHANGED <<memVars, s, made, env, sealed, envLive, crashed,
                           faults>>
       ELSE /\ src # NilBuf
            /\ \E rk \in RandBytes, rs \in RandBytes, rn \in RandBytes :
               \E plan \in Plans(EncryptLockedRun(Now(NoFault), src,
                                     ZeroPlaintext, IntegrityCheck,
                                     rk, rs, rn).m.trace, fs) :
                 EncryptLockedReturned(
                     EncryptLockedRun(Now(plan), src, ZeroPlaintext,
                                      IntegrityCheck, rk, rs, rn),
                     Rd(regs, Bytes(src)))
    /\ UNCHANGED <<cfgVars, latchVars, src, pt, thrVars, tampers, histVars>>

(***************************************************************************)
(* Decrypt and Use.                                                        *)
(***************************************************************************)
DecryptReturned(d) ==
    /\ Commit(d.m)
    /\ pt' = d.pt
    /\ last' = [Ret("Decrypt", d.err, d.m) EXCEPT
                   !.data = Rd(d.m.regs, Bytes(d.pt)),
                   !.live = d.pt # NilBuf]

DecryptCall(fs) ==
    /\ CallerIdle
    /\ made
    /\ pt = NilBuf
    /\ \E plan \in Plans(DecryptRun(Now(NoFault), s, IntegrityCheck).m.trace, fs) :
         DecryptReturned(DecryptRun(Now(plan), s, IntegrityCheck))
    /\ UNCHANGED <<cfgVars, latchVars, src, bufVars, thrVars, tampers, histVars>>

\* The caller is done with the plaintext: ZeroLocked(pt); FreeLocked(pt)
FreePlaintext(fs) ==
    /\ CallerIdle
    /\ pt # NilBuf
    /\ \E plan \in Plans(<<"free">>, fs) :
         LET f == FreeLocked(ZeroLocked(Now(plan), pt), pt)
         IN  /\ Commit(f.m)
             /\ pt' = NilBuf
             /\ last' = [Ret("FreeLocked", f.err, f.m) EXCEPT
                            !.live = regs[pt.ptr].mapped
                                     /\ f.m.regs[pt.ptr].mapped,
                            !.zero = Wiped(f.m.regs, pt)]
    /\ UNCHANGED <<cfgVars, latchVars, src, bufVars, thrVars, tampers, histVars>>

\* What the callback fn returns.
CallbackErr(fn) == IF fn = "fail" THEN "callback failed" ELSE ""

UseReturned(u, fn) ==
    /\ Commit(u.m)
    /\ last' = [Ret("Use", u.err, u.m) EXCEPT
                   !.calls = u.calls, !.arg = u.arg, !.cb = CallbackErr(fn),
                   !.live = u.ptr # NULL /\ u.m.regs[u.ptr].mapped,
                   !.zero = u.ptr # NULL /\ AllZero(u.m.regs[u.ptr].bytes)]

\* s.Use(fn): fn is nil, or returns nil ("ok"), or returns an error ("fail")
UseCall(fn, fs) ==
    /\ CallerIdle
    /\ made
    /\ \E plan \in Plans(UseRun(Now(NoFault), s, IntegrityCheck, fn = "nil",
                                CallbackErr(fn)).m.trace, fs) :
         UseReturned(UseRun(Now(plan), s, IntegrityCheck, fn = "nil",
                            CallbackErr(fn)), fn)
    /\ UNCHANGED <<cfgVars, latchVars, src, bufVars, pt, thrVars, tampers, histVars>>
(***************************************************************************)
(* The destruction timer.  time.AfterFunc(d, f) runs f in its own          *)
(* goroutine once d has passed; Timer.Stop keeps a timer from firing but   *)
(* does not touch a goroutine that has already been started.               *)
(***************************************************************************)
\* t.Stop()
Stop(tm, k) ==
    IF k # 0 /\ tm[k] = "armed" THEN [tm EXCEPT ![k] = "stopped"] ELSE tm

\* if s.timer != nil { s.timer.Stop() } in DestroyAfter
StopPrevious(tm, sb) == Stop(tm, sb.timer)

\* if s.timer != nil { s.timer.Stop(); s.timer = nil } in Destroy
StopOnDestroy(tm, sb) == Stop(tm, sb.timer)

DestroyAfterCall ==
    /\ CallerIdle
    /\ made
    /\ \E k \in TimerIds :
         /\ timers[k] = "unused"
         /\ \A j \in TimerIds : j < k => timers[j] # "unused"
         /\ IF s.destroyed
            THEN /\ UNCHANGED <<s, timers>>
                 /\ last' = Ret("DestroyAfter", "", Now(NoFault))
            ELSE /\ timers' = [StopPrevious(timers, s) EXCEPT ![k] = "armed"]
                 /\ s' = [s EXCEPT !.timer = k]
                 /\ last' = [Ret("DestroyAfter", "", Now(NoFault)) EXCEPT
                                !.timer = k]
    /\ UNCHANGED <<memVars, cfgVars, latchVars, src, made, encrypts, env, sealed, envLive,
                   pt, pc,
                   loc, tret, crashed, faults, tampers, histVars>>

\* The duration of timer k has passed: the runtime starts its goroutine.
Fire(k) ==
    /\ ~crashed
    /\ timers[k] = "armed"
    /\ timers' = [timers EXCEPT ![k] = "fired"]
    /\ pc' = [pc EXCEPT ![k] = "enter"]
    /\ UNCHANGED <<memVars, cfgVars, latchVars, src, bufVars, pt, loc, tret, crashed,
                   last, faults, tampers, histVars>>

(***************************************************************************)
(* Destroy, by the caller (thread 0) or by a timer goroutine.  The code    *)
(* holds no lock, so a Destroy runs in steps that other threads interleave *)
(* with: up to the capture of the envelope's memory in freeLocked, the     *)
(* release of that memory, and the final marking of the SecureBuffer.      *)
(***************************************************************************)
\* Destroy returns err on thread t
Return(t, err, l) ==
    /\ pc' = [pc EXCEPT ![t] = "idle"]
    /\ loc' = [loc EXCEPT ![t] = NoLoc]
    /\ IF t = 0
       THEN /\ last' = [NoRet EXCEPT !.op = "Destroy", !.err = err,
                                     !.hit = l.hit, !.pre = l.pre,
                                     !.dirty = l.dirty]
            /\ tret' = tret
       ELSE /\ tret' = [tret EXCEPT ![t] = IF err = "" THEN "ok" ELSE "error"]
            /\ last' = last

\* The locals a Destroy call carries from step to step: g is the result of
\* its integrity block, b the LockedBuffer s.mem points to.
DestroyLocals(g, b) ==
    [mem |-> Bytes(b), ierr |-> g.ierr, uerr |-> "", hit |-> Failed(g.m),
     dirty |-> g.m.dirty, gone |-> FALSE, pre |-> Before]

\* Destroy from the end of the integrity block to
\* mem := unsafe.Slice(b.ptr, b.size) in freeLocked
DestroyEntered(t, g, b) ==
    IF g.early
    THEN /\ Commit(g.m)
         /\ Return(t, g.err, DestroyLocals(g, b))
    ELSE /\ Commit(ZeroLocked(g.m, b))
         /\ pc' = [pc EXCEPT ![t] = IF b.ptr = NULL THEN "mark" ELSE "free"]
         /\ loc' = [loc EXCEPT ![t] = DestroyLocals(g, b)]
         /\ UNCHANGED <<last, tret>>

\* From the head of Destroy to mem := unsafe.Slice(b.ptr, b.size) in
\* freeLocked.
DestroyEnter(t, fs) ==
    /\ ~crashed
    /\ made
    /\ pc[t] = IF t = 0 THEN "idle" ELSE "enter"
    /\ IF s.destroyed
       THEN /\ Return(t, "", [NoLoc EXCEPT !.pre = Before])
            /\ UNCHANGED <<memVars, s, env, timers, crashed, faults>>
       ELSE
         /\ timers' = StopOnDestroy(timers, s)
         /\ s' = [s EXCEPT !.timer = 0]
         /\ \E plan \in IF IntegrityCheck
                        THEN Plans(DestroyIntegrity(Now(NoFault), s).m.trace, fs)
                        ELSE {NoFault} :
              DestroyEntered(
                  t,
                  IF IntegrityCheck THEN DestroyIntegrity(Now(plan), s)
                  ELSE [m |-> Now(plan), early |-> FALSE, err |-> "",
                        ierr |-> FALSE],
                  IF s.mem = "nil" THEN NilBuf ELSE env)
         /\ env' = env
    /\ UNCHANGED <<cfgVars, latchVars, src, made, encrypts, sealed, envLive, pt,
                   tampers, histVars>>
\* The body of freeLocked on the captured memory: Zero, munlock, munmap,
\* b.ptr = nil.
DestroyFree(t, fs) ==
    /\ ~crashed
    /\ pc[t] = "free"
    /\ \E plan \in Plans(<<"free">>, fs) :
         LET l == loc[t]
             b == [ptr |-> l.mem.ptr, size |-> l.mem.len]
             f == freeLocked(Now(plan), b)
         IN  /\ Commit(f.m)
             /\ env' = IF f.b = NilBuf THEN NilBuf ELSE env
             /\ loc' = [loc EXCEPT ![t].uerr = f.err,
                                   ![t].hit = @ \/ Failed(f.m),
                                   ![t].dirty = @ \/ f.m.dirty]
             /\ unmaps' = unmaps + (IF regs[b.ptr].mapped
                                       /\ ~f.m.regs[b.ptr].mapped
                                    THEN 1 ELSE 0)
             /\ envLive' = (envLive /\ f.m.regs[sealed.at].mapped)
             /\ stale' = (stale \/ ~envLive)
             /\ UNCHANGED srcFreed
    /\ pc' = [pc EXCEPT ![t] = "mark"]
    /\ UNCHANGED <<cfgVars, latchVars, src, s, made, encrypts, sealed, pt, timers, tret,
                   last, tampers>>

\* s.destroyed = true; s.mem = nil; ...; return errors.Join(...)
DestroyMark(t) ==
    /\ ~crashed
    /\ pc[t] = "mark"
    /\ s' = [s EXCEPT !.destroyed = TRUE, !.mem = "nil", !.salt = NilSlice,
                      !.nonce = NilSlice, !.ciphertext = NilSlice,
                      !.mac = NilSlice]
    /\ Return(t, JoinErr(loc[t].uerr, loc[t].ierr), loc[t])
    /\ UNCHANGED <<memVars, cfgVars, latchVars, src, made, encrypts, env, sealed,
                   envLive, pt, timers, crashed, faults, tampers, histVars>>

(***************************************************************************)
(* Something outside the library changes a byte of the envelope.           *)
(***************************************************************************)
\* A value different from b.
Flip(b) == <<4, b>>

\* The first byte of each field of the envelope, and its last byte.
TamperOffsets ==
    LET a == saltLen
        b == a + nonceLen
        c == b + Len(sealed.plain) + Overhead
        d == Len(sealed.bytes)
    IN  {0, a, b, c, d - 1} \cap (0..(d - 1))

Tamper(off) ==
    /\ ~crashed
    /\ envLive
    /\ faults = 0
    /\ tampers < MaxTamper
    /\ off \in TamperOffsets
    /\ regs' = [regs EXCEPT ![sealed.at].bytes[off + 1] = Flip(@)]
    /\ tampers' = tampers + 1
    /\ UNCHANGED <<masterKey, masterBuf, once, keyRegs, cfgVars, latchVars, src, bufVars, pt,
                   thrVars, crashed, last, faults, histVars>>

(***************************************************************************)
(* Init and Shutdown called from several threads.  once.Do takes the mutex *)
(* of once around the body; Shutdown takes no lock, and once = sync.Once{} *)
(* overwrites that mutex, held or not.  A call runs in steps that other    *)
(* threads interleave with.  A LockedBuffer is known by the address it     *)
(* holds.                                                                  *)
(***************************************************************************)
\* The call op returns err on thread t
Returns(t, op, err) ==
    /\ pc' = [pc EXCEPT ![t] = "idle"]
    /\ loc' = [loc EXCEPT ![t] = NoLoc]
    /\ IF t = 0
       THEN /\ last' = [NoRet EXCEPT !.op = op, !.err = err]
            /\ tret' = tret
       ELSE /\ tret' = [tret EXCEPT ![t] = IF err = "" THEN "ok" ELSE "error"]
            /\ last' = last

\* Thread t may begin a call: the caller (0) at any time, another thread
\* once.
MayCall(t) ==
    pc[t] = "idle" /\ (IF t = 0 THEN TRUE ELSE tret[t] = "none")

\* The body of Init up to the binding, from FillRandom on
keyFill(b, fr) ==
    IF fr.err # ""
    THEN [m |-> FreeLocked(fr.m, b).m, b |-> NilBuf, err |-> fr.err]
    ELSE [m |-> fr.m, b |-> b, err |-> ""]

\* The body of Init up to the binding, from AllocateLocked on
keyAlloc(a, v) ==
    IF a.err # "" THEN a ELSE keyFill(a.b, FillRandom(a.m, Bytes(a.b), v))

\* buf, e := AllocateLocked(32); FillRandom(buf.Bytes()): [m, b, err]
KeyBody(m, v) == keyAlloc(AllocateLocked(m, keyLen), v)

\* once.Do found the body not yet run and took the mutex: a is the result of
\* the body up to the binding
InitEntered(t, a) ==
    IF a.err # ""
    THEN /\ Commit([a.m EXCEPT !.once = TRUE])
         /\ onceMu' = FALSE
         /\ Returns(t, "Init", a.err)
    ELSE /\ Commit(a.m)
         /\ onceMu' = TRUE
         /\ pc' = [pc EXCEPT ![t] = "bind"]
         /\ loc' = [loc EXCEPT ![t].mem = Bytes(a.b)]
         /\ UNCHANGED <<last, tret>>

\* Init from its head to masterBuf = buf; a caller waits while another one
\* holds the mutex of once
InitEnter(t, fs) ==
    /\ ~crashed
    /\ MayCall(t)
    /\ IF onceDone([once |-> once])
       THEN /\ Returns(t, "Init", "")
            /\ UNCHANGED <<memVars, crashed, faults, onceMu>>
       ELSE /\ ~onceMu
            /\ \E v \in RandBytes :
               \E plan \in Plans(KeyBody(Now(NoFault), v).m.trace, fs) :
                 InitEntered(t, KeyBody(Now(plan), v))
    /\ UNCHANGED <<cfgVars, keyCleared, src, bufVars, pt, timers, tampers,
                   histVars>>

\* masterBuf = buf
InitBind(t) ==
    /\ ~crashed
    /\ pc[t] = "bind"
    /\ masterBuf' = [ptr |-> loc[t].mem.ptr, size |-> loc[t].mem.len]
    /\ keyCleared' = FALSE
    /\ pc' = [pc EXCEPT ![t] = "key"]
    /\ UNCHANGED <<regs, masterKey, once, keyRegs, onceMu, cfgVars, src,
                   bufVars, pt, timers, loc, tret, crashed, last, faults,
                   tampers, histVars>>

\* The values masterKey = (*[32]byte)(buf.ptr) may store: the address in
\* buf, or, when another thread has cleared buf since it was bound, nil or
\* the address read before (the accesses are not synchronized).
KeyAddresses(l) ==
    {l.mem.ptr} \cup (IF l.gone THEN {NULL} ELSE {})

\* masterKey = (*[32]byte)(buf.ptr), then once.Do marks the body as run and
\* unlocks its mutex: a fatal error when the mutex is not locked
InitKey(t) ==
    /\ ~crashed
    /\ pc[t] = "key"
    /\ \E p \in KeyAddresses(loc[t]) :
         /\ masterKey' = p
         /\ keyRegs' = {r \in keyRegs \cup ({p} \ {NULL}) : regs[r].mapped}
    /\ once' = TRUE
    /\ onceMu' = FALSE
    /\ crashed' = ~onceMu
    /\ Returns(t, "Init", "")
    /\ UNCHANGED <<regs, masterBuf, keyCleared, cfgVars, src, bufVars, pt,
                   timers, faults, tampers, histVars>>

\* Shutdown from its head to mem := unsafe.Slice(b.ptr, b.size) in
\* freeLocked(masterBuf)
ShutdownEnter(t) ==
    /\ ~crashed
    /\ MayCall(t)
    /\ IF masterBuf = NilBuf /\ ~keyCleared
       THEN /\ Returns(t, "Shutdown", "")
            /\ UNCHANGED <<memVars, crashed, faults>>
       ELSE /\ Commit(ZeroLocked(Now(NoFault), masterBuf))
            /\ pc' = [pc EXCEPT ![t] = IF masterBuf.ptr = NULL
                                       THEN "clear" ELSE "free"]
            /\ loc' = [loc EXCEPT ![t].mem = Bytes(masterBuf)]
            /\ UNCHANGED <<last, tret>>
    /\ UNCHANGED <<cfgVars, latchVars, src, bufVars, pt, timers, tampers,
                   histVars>>

\* freeLocked(masterBuf) cleared the LockedBuffer that holds address p:
\* what the threads that are about to read it will find
Cleared(lc, p) ==
    [u \in Threads |->
        IF pc[u] = "key" /\ lc[u].mem.ptr = p
        THEN [lc[u] EXCEPT !.gone = TRUE] ELSE lc[u]]

\* The body of freeLocked(masterBuf) on the captured memory: f is its result
ShutdownFreed(t, b, f) ==
    /\ Commit([f.m EXCEPT !.masterBuf =
                  IF f.b.ptr = NULL /\ @.ptr = b.ptr THEN NilBuf ELSE @])
    /\ keyCleared' = (keyCleared \/ (f.b.ptr = NULL /\ masterBuf.ptr = b.ptr))
    /\ loc' = IF f.b.ptr = NULL
              THEN Cleared([loc EXCEPT ![t].uerr = f.err], b.ptr)
              ELSE [loc EXCEPT ![t].uerr = f.err]
    /\ stale' = (stale \/ ~regs[b.ptr].mapped)

ShutdownFree(t, fs) ==
    /\ ~crashed
    /\ pc[t] = "free"
    /\ \E plan \in Plans(<<"free">>, fs) :
         ShutdownFreed(t, [ptr |-> loc[t].mem.ptr, size |-> loc[t].mem.len],
                       freeLocked(Now(plan),
                                  [ptr |-> loc[t].mem.ptr,
                                   size |-> loc[t].mem.len]))
    /\ pc' = [pc EXCEPT ![t] = "clear"]
    /\ UNCHANGED <<cfgVars, onceMu, src, bufVars, pt, timers, tret, last,
                   tampers, unmaps, srcFreed>>

\* masterBuf = nil; masterKey = nil; once = sync.Once{}; return err
ShutdownClear(t) ==
    /\ ~crashed
    /\ pc[t] = "clear"
    /\ masterBuf' = NilBuf
    /\ keyCleared' = FALSE
    /\ masterKey' = NULL
    /\ once' = onceReset([once |-> once]).once
    /\ onceMu' = FALSE
    /\ Returns(t, "Shutdown", loc[t].uerr)
    /\ UNCHANGED <<regs, keyRegs, cfgVars, src, bufVars, pt, timers, crashed,
                   faults, tampers, histVars>>

\* The failures of operating-system calls the environment may inject.
OpFaults == {"mmap", "munlock", "munmap", "rand"}

(***************************************************************************)
(* The life of one SecureBuffer in a single-threaded caller, every         *)
(* operating-system call succeeding unless the process runs out of         *)
(* mappings, with an outside writer that may change the stored envelope.   *)
(***************************************************************************)
Next ==
    \/ \E b \in BOOLEAN : SetZeroPlaintext(b)
    \/ \E b \in BOOLEAN : SetIntegrityCheck(b)
    \/ \E n \in 0..MaxLen : AllocateSource(n, {})
    \/ \E P \in Plaintexts : EncryptToMemoryCall(P, {})
    \/ \E isNil \in BOOLEAN : EncryptLockedCall(isNil, {})
    \/ DecryptCall({})
    \/ FreePlaintext({})
    \/ \E fn \in {"nil", "ok", "fail"} : UseCall(fn, {})
    \/ DestroyEnter(0, {})
    \/ DestroyFree(0, {})
    \/ DestroyMark(0)
    \/ \E off \in 0..(EnvelopeLen(MaxLen, TRUE) - 1) : Tamper(off)

Spec == Init /\ [][Next]_vars

(***************************************************************************)
(* The same caller when operating-system calls may fail, and when it shuts *)
(* the library down while it holds the SecureBuffer.                       *)
(***************************************************************************)
NextFaults ==
    \/ \E b \in BOOLEAN : SetIntegrityCheck(b)
    \/ ShutdownCall(OpFaults)
    \/ \E P \in Plaintexts : EncryptToMemoryCall(P, OpFaults)
    \/ DecryptCall(OpFaults)
    \/ FreePlaintext(OpFaults)
    \/ \E fn \in {"nil", "ok", "fail"} : UseCall(fn, OpFaults)
    \/ DestroyEnter(0, OpFaults)
    \/ DestroyFree(0, OpFaults)
    \/ DestroyMark(0)

SpecFaults == Init /\ [][NextFaults]_vars

(***************************************************************************)
(* A SecureBuffer with destruction timers: the caller and the timer        *)
(* goroutines run Destroy without synchronization, and an allocation made  *)
(* by Destroy may fail.                                                    *)
(***************************************************************************)
NextTimers ==
    \/ \E P \in Plaintexts : EncryptToMemoryCall(P, {})
    \/ DecryptCall({})
    \/ \E fn \in {"nil", "ok", "fail"} : UseCall(fn, {})
    \/ DestroyAfterCall
    \/ \E k \in TimerIds : Fire(k)
    \/ \E t \in Threads : DestroyEnter(t, {"mmap"})
    \/ \E t \in Threads : DestroyFree(t, {})
    \/ \E t \in Threads : DestroyMark(t)

SpecTimers == Init /\ [][NextTimers]_vars

(***************************************************************************)
(* The allocator and the master key in a single-threaded caller: it        *)
(* allocates, wipes and frees a region of its own, initializes and shuts   *)
(* down the library, where any operating-system call may fail, and        *)
(* encrypts and decrypts one secret.                                       *)
(***************************************************************************)
NextKey ==
    \/ \E n \in 0..MaxLen : AllocateSource(n, Faults)
    \/ ZeroSource
    \/ FreeSource(Faults)
    \/ InitCall(Faults)
    \/ ShutdownCall(Faults)
    \/ \E P \in Plaintexts : EncryptToMemoryCall(P, {})
    \/ DecryptCall({})
    \/ FreePlaintext({})

SpecKey == Init /\ [][NextKey]_vars

(***************************************************************************)
(* The library's own use of the allocator: the caller initializes, shuts   *)
(* down, encrypts and decrypts one secret and frees the plaintext, while   *)
(* any operating-system call may fail inside any of these calls.           *)
(***************************************************************************)
NextLeaks ==
    \/ InitCall(Faults)
    \/ ShutdownCall(Faults)
    \/ \E P \in Plaintexts : EncryptToMemoryCall(P, Faults)
    \/ DecryptCall(Faults)
    \/ FreePlaintext(Faults)

SpecLeaks == Init /\ [][NextLeaks]_vars

(***************************************************************************)
(* Init and Shutdown called from several threads at once.                  *)
(***************************************************************************)
NextThreads ==
    \/ \E t \in Threads : InitEnter(t, {"mmap"})
    \/ \E t \in Threads : InitBind(t)
    \/ \E t \in Threads : InitKey(t)
    \/ \E t \in Threads : ShutdownEnter(t)
    \/ \E t \in Threads : ShutdownFree(t, {})
    \/ \E t \in Threads : ShutdownClear(t)

SpecThreads == Init /\ [][NextThreads]_vars

(***************************************************************************)
(* Properties.  last is the caller's most recent returned call: last.pre   *)
(* the buffer as the call found it, last.hit whether an operating-system   *)
(* call failed inside it.                                                  *)
(***************************************************************************)
\* The call found a live buffer whose envelope, master key and
\* IntegrityCheck were those of the encryption, and no operating-system
\* call failed in it.
Undisturbed ==
    /\ ~last.hit
    /\ ~last.pre.destroyed
    /\ last.pre.diff = 0
    /\ last.pre.key
    /\ last.pre.ic = sealed.ic

\* C1 as amended: for every plaintext P with 1 <= |P|, EncryptToMemory on a
\* copy of P succeeds when no operating-system call fails, and Decrypt on
\* the returned, undisturbed buffer returns a locked region whose bytes
\* equal P exactly.
C1_RoundTrip ==
    /\ (last.op = "EncryptToMemory" /\ ~last.hit /\ Len(last.arg) >= 1)
          => last.err = ""
    /\ (last.op = "Decrypt" /\ Undisturbed)
          => (last.err = "" /\ last.live /\ last.data = sealed.plain)

\* C1's case: a Decrypt that returned a non-empty plaintext.
C1_Witness ==
    /\ last.op = "Decrypt"
    /\ last.err = ""
    /\ Len(sealed.plain) >= 1
    /\ last.data = sealed.plain

\* C1 as stated: for every plaintext P with 0 <= |P|, the empty plaintext
\* included, EncryptToMemory succeeds and Decrypt returns P.
C1_Stated ==
    /\ (last.op = "EncryptToMemory" /\ ~last.hit) => last.err = ""
    /\ (last.op = "Decrypt" /\ Undisturbed)
          => (last.err = "" /\ last.data = sealed.plain)

\* C2: after a successful EncryptToMemory or EncryptLocked every byte of the
\* caller's source is zero, whatever ZeroPlaintext is for EncryptToMemory.
C2_SourceZeroed ==
    (last.op \in {"EncryptToMemory", "EncryptLocked"} /\ last.err = "")
        => (Len(last.data) = Len(last.arg) /\ AllZero(last.data))

\* C2's case: EncryptLocked succeeded on a non-zero source with
\* ZeroPlaintext off.
C2_Witness ==
    /\ last.op = "EncryptLocked"
    /\ last.err = ""
    /\ ~ZeroPlaintext
    /\ Len(last.arg) >= 1
    /\ ~AllZero(last.arg)
    /\ AllZero(last.data)

\* C3: with IntegrityCheck on, when one byte of the envelope was changed
\* after the encryption, Decrypt returns an error, hands the caller no
\* plaintext region and leaves no region allocated.
C3_TamperDetected ==
    (/\ last.op = "Decrypt"
     /\ sealed.ic
     /\ last.pre.ic
     /\ ~last.pre.destroyed
     /\ last.pre.diff = 1)
        => (last.err # "" /\ ~last.live /\ last.grew = 0)

\* C3's case: Decrypt refused an envelope with one changed byte.
C3_Witness ==
    /\ last.op = "Decrypt"
    /\ sealed.ic
    /\ last.pre.ic
    /\ last.pre.diff = 1
    /\ last.err = "integrity check failed"
    /\ ~last.live

\* C4: Destroyed is terminal: once the buffer is destroyed no step changes
\* the SecureBuffer again, and a call returning to the caller has mapped or
\* unmapped nothing, armed or stopped no timer and handed out no plaintext;
\* Decrypt returns the use-after-destroy error, and so does Use (or its
\* nil-callback error), without calling back.
C4_DestroyedIsTerminal ==
    [][s.destroyed =>
          /\ s' = s
          /\ (last' # last) =>
                /\ regs' = regs
                /\ timers' = timers
                /\ pt' = pt
                /\ last'.op = "Decrypt" => last'.err = "buffer destroyed"
                /\ last'.op = "Use" =>
                      /\ last'.err \in {"buffer destroyed", "nil function"}
                      /\ last'.calls = 0]_vars

\* C4's case: Use was called on a destroyed buffer.
C4_Witness ==
    /\ s.destroyed
    /\ last.op = "Use"
    /\ last.err = "buffer destroyed"
    /\ last.calls = 0

\* C5 as amended: for a buffer whose envelope is unmodified, a Destroy in
\* which no operating-system call fails, made under the master key and the
\* IntegrityCheck of the encryption, returns success and releases the
\* envelope; a Destroy of a destroyed buffer returns success and releases
\* nothing.
C5_DestroyTwice ==
    /\ (last.op = "Destroy" /\ Undisturbed)
          => (last.err = "" /\ s.destroyed /\ ~envLive /\ unmaps = 1)
    /\ (last.op = "Destroy" /\ last.pre.destroyed)
          => (last.err = "" /\ unmaps = IF envLive THEN 0 ELSE 1)

\* C5's case: the second of two Destroy calls returned.
C5_Witness ==
    /\ last.op = "Destroy"
    /\ last.pre.destroyed
    /\ last.err = ""
    /\ ~envLive
    /\ unmaps = 1

\* C5 as stated, for the calls that destroyed the buffer: Destroy on a
\* buffer with an unmodified envelope returns success.
C5_Stated ==
    (last.op = "Destroy" /\ last.pre.diff = 0 /\ s.destroyed)
        => last.err = ""

\* C6: when Destroy returns from a call on a not-yet-destroyed buffer, the
\* buffer is Destroyed and its envelope has been released, whatever error
\* the call reports.
C6_Stated ==
    (last.op = "Destroy" /\ ~last.pre.destroyed)
        => (s.destroyed /\ ~envLive)

\* C7: with the timer callback and an explicit Destroy running concurrently
\* the envelope is released at most once and never touched after its
\* release.
C7_Stated ==
    /\ unmaps <= 1
    /\ ~stale
    /\ ~crashed

\* C8: once the timer callback's Destroy has returned the buffer is
\* Destroyed.
C8_Stated ==
    \A k \in TimerIds : tret[k] # "none" => s.destroyed

\* C9: at most one timer is armed; a callback that is destroying the buffer
\* belongs to the most recently armed timer; and once an explicit Destroy
\* has returned no callback is destroying the buffer.
C9_Stated ==
    /\ Cardinality({k \in TimerIds : timers[k] = "armed"}) <= 1
    /\ \A k \in TimerIds :
          pc[k] \in {"free", "mark"} =>
              \A j \in TimerIds : j > k => timers[j] = "unused"
    /\ (last.op = "Destroy" /\ pc[0] = "idle") =>
          \A k \in TimerIds : pc[k] \notin {"free", "mark"}

\* C10: Use on an undisturbed buffer holding P calls the callback exactly
\* once, with P; it returns the callback's result, and when it returns the
\* plaintext region has been zeroized and released; it never calls back
\* more than once.
C10_Stated ==
    /\ (last.op = "Use" /\ last.err # "nil function" /\ Undisturbed)
          => last.calls = 1
    /\ (last.op = "Use" /\ last.calls = 1)
          => /\ last.arg = sealed.plain
             /\ last.err = last.cb
             /\ last.zero
             /\ ~last.live
    /\ last.op = "Use" => last.calls \in {0, 1}

\* C11 FreeLocked wipes first, then unpins, then unmaps: when FreeLocked on
\* a live region returns, with success or with the error of munlock or
\* munmap, the region is gone or every byte of it is zero, and no call ever
\* hands a mapping back to the system while it holds a non-zero byte.
C11_WipeBeforeRelease ==
    /\ ~last.dirty
    /\ (last.op = "FreeLocked" /\ ~last.freed) => last.zero

C11_Witness ==
    /\ last.op = "FreeLocked"
    /\ ~last.freed
    /\ ~AllZero(last.data)
    /\ last.err = "ENOMEM"
    /\ last.sys = <<<<"munlock", "ENOMEM">>>>
    /\ last.zero

\* C12 When FreeLocked has released a region its handle is cleared: size 0
\* and no bytes.  FreeLocked and ZeroLocked on a handle FreeLocked has
\* cleared return success, leave the handle and every mapping as they were
\* and make no system call.
C12_ClearedHandle ==
    [][(last' # last) =>
         /\ (/\ last'.op = "FreeLocked"
             /\ src.ptr # NULL
             /\ regs[src.ptr].mapped
             /\ ~regs'[src.ptr].mapped)
               => (last'.cleared /\ src'.size = 0 /\ Bytes(src') = NilSlice)
         /\ last'.freed
               => /\ last'.op \in {"FreeLocked", "ZeroLocked"}
                  /\ last'.err = ""
                  /\ last'.sys = <<>>
                  /\ last'.n = 0
                  /\ regs' = regs
                  /\ src' = src]_vars

C12_Witness ==
    /\ last.op = "FreeLocked"
    /\ last.freed
    /\ last.err = ""
    /\ last.sys = <<>>
    /\ src = NilBuf

\* The mappings that hold a master key: bound by Init, still mapped, and not
\* wiped.
LiveKeys ==
    {r \in keyRegs : regs[r].mapped /\ ~AllZero(regs[r].bytes)}

\* C13 In a sequential run of Init, Shutdown and encrypt calls at most one
\* mapping holds a master key, and Init on an initialized process returns
\* success, makes no system call and leaves every mapping (the 32 key bytes
\* among them) and the key's binding as they were.
C13_OneMasterKey ==
    /\ [](Cardinality(LiveKeys) <= 1)
    /\ [][(last' # last /\ last'.op = "Init" /\ masterKey # NULL) =>
             /\ last'.err = ""
             /\ last'.sys = <<>>
             /\ regs' = regs
             /\ masterKey' = masterKey
             /\ masterBuf' = masterBuf]_vars

C13_Witness ==
    /\ last.op = "Init"
    /\ last.err = ""
    /\ last.n = 0
    /\ ~last.bound
    /\ masterKey # NULL
    /\ LiveKeys = {masterKey}
    /\ Len(regs[masterKey].bytes) = keyLen

\* C14 Every caller of Init sees the outcome of the call that ran the
\* initialization body: Init returns success only when a master key is
\* bound, so after a body that failed no Init returns success.
C14_Stated ==
    (last.op = "Init" /\ last.err = "")
        => (masterKey # NULL /\ regs[masterKey].mapped)

\* C15 Shutdown on an initialized process wipes the 32-byte region of the
\* master key before anything else, clears masterKey and masterBuf and
\* resets the latch, and when munlock and munmap succeed the region is
\* released and Shutdown returns success; the next Init then maps a new
\* region and fills it with bytes it draws from the random source.
\* Shutdown on an uninitialized process makes no system call, changes
\* nothing and returns success.
C15_ShutdownResets ==
    [][(last' # last) =>
         /\ (last'.op = "Shutdown" /\ masterBuf # NilBuf)
               => /\ regs[masterBuf.ptr].len = keyLen
                  /\ last'.zero
                  /\ ~last'.dirty
                  /\ masterKey' = NULL
                  /\ masterBuf' = NilBuf
                  /\ once' = FALSE
                  /\ ~last'.hit => /\ last'.err = ""
                                   /\ ~regs'[masterBuf.ptr].mapped
         /\ (last'.op = "Shutdown" /\ masterBuf = NilBuf)
               => /\ last'.err = ""
                  /\ last'.sys = <<>>
                  /\ UNCHANGED <<regs, masterKey, masterBuf, once>>
         /\ (last.op = "Shutdown" /\ last.live /\ last'.op = "Init"
                /\ ~last'.hit)
               => /\ last'.err = ""
                  /\ Calls(last'.sys) = <<"mmap", "mlock2">>
                  /\ masterKey' \in last'.new
                  /\ masterBuf' = [ptr |-> masterKey', size |-> keyLen]
                  /\ last'.data = last'.arg]_vars

C15_Witness ==
    /\ last.op = "Shutdown"
    /\ last.live
    /\ last.err = ""
    /\ Calls(last.sys) = <<"munlock", "munmap">>
    /\ masterKey = NULL
    /\ masterBuf = NilBuf
    /\ ~once
    /\ keyRegs = {}

\* C15 as stated: Shutdown on an initialized process releases the region of
\* the master key.
C15_Stated ==
    (last.op = "Shutdown" /\ last.live) => keyRegs = {}

\* C16 Concurrent Init and Shutdown calls are serialized: the process never
\* dies in them, no region is used after its release, and whenever no call
\* is in progress masterKey is non-nil exactly when masterBuf is bound to a
\* region that is still mapped, which masterKey then points to.
C16_Stated ==
    /\ ~crashed
    /\ ~stale
    /\ (\A t \in Threads : pc[t] = "idle")
          => /\ masterKey # NULL <=> masterBuf # NilBuf
             /\ masterKey # NULL => /\ masterKey = masterBuf.ptr
                                    /\ regs[masterKey].mapped

\* C17 EncryptToMemory on an uninitialized process runs Init and returns
\* its failure: when EncryptToMemory returns a SecureBuffer a master key is
\* bound and the key of the buffer was derived from its 32 bytes.
C17_Stated ==
    (last.op = "EncryptToMemory" /\ last.err = "")
        => /\ masterKey # NULL
           /\ sealed.key = regs[masterKey].bytes
           /\ Len(sealed.key) = keyLen

\* The mappings the last call made and left behind, the master key's apart.
LeftBehind == last.new \ {masterKey}

\* C18 EncryptToMemory releases what it acquires: when it returns an error
\* none of the regions it mapped is still mapped, and when it returns a
\* SecureBuffer, no operating-system call having failed, the envelope is the
\* only one.
C18_Stated ==
    /\ (last.op = "EncryptToMemory" /\ last.err # "") => LeftBehind = {}
    /\ (last.op = "EncryptToMemory" /\ last.err = "" /\ ~last.hit)
          => LeftBehind = {env.ptr}

\* C19 Decrypt releases what it acquires: when it returns an error none of
\* the regions it mapped is still mapped, and when it returns a plaintext,
\* no operating-system call having failed, the plaintext's region is the
\* only one.
C19_Stated ==
    /\ (last.op = "Decrypt" /\ last.err # "") => last.new = {}
    /\ (last.op = "Decrypt" /\ last.err = "" /\ ~last.hit)
          => last.new = {pt.ptr}

\* C20 AllocateLocked pins with mlock2 first and calls plain mlock exactly
\* when mlock2 answered ENOSYS or EINVAL.  Any other mlock2 error, and a
\* failure of the fallback, is returned after the mapping has been unmapped:
\* a failed AllocateLocked, size <= 0 included, leaves no mapping behind and
\* returns no handle, and a successful one returns one pinned mapping.
C20_PinOrUnmap ==
    last.op = "AllocateLocked" =>
      LET cs == last.sys
      IN  /\ Len(last.arg) = 0 => cs = <<>> /\ last.err = "invalid size"
          /\ Len(last.arg) > 0 => Len(cs) >= 1 /\ cs[1][1] = "mmap"
          /\ (Len(cs) >= 1 /\ cs[1][2] # "") => Len(cs) = 1 /\ last.err = cs[1][2]
          /\ (Len(cs) >= 1 /\ cs[1][2] = "") => Len(cs) >= 2 /\ cs[2][1] = "mlock2"
          /\ Len(cs) >= 2 =>
                IF cs[2][2] \in {"ENOSYS", "EINVAL"}
                THEN /\ Len(cs) >= 3 /\ cs[3][1] = "mlock"
                     /\ IF cs[3][2] = ""
                        THEN Len(cs) = 3 /\ last.err = ""
                        ELSE /\ cs = SubSeq(cs, 1, 3) \o <<<<"munmap", "">>>>
                             /\ last.err = cs[3][2]
                ELSE /\ \A i \in 1..Len(cs) : cs[i][1] # "mlock"
                     /\ IF cs[2][2] = ""
                        THEN Len(cs) = 2 /\ last.err = ""
                        ELSE /\ cs = SubSeq(cs, 1, 2) \o <<<<"munmap", "">>>>
                             /\ last.err = cs[2][2]
          /\ last.err # "" => last.new = {} /\ ~last.live /\ src = NilBuf
          /\ last.err = "" => /\ last.live /\ last.new = {src.ptr}
                              /\ regs[src.ptr].locked
                              /\ regs[src.ptr].len = Len(last.arg)

\* AllocateLocked met a failing fallback: mlock2 answered ENOSYS, mlock
\* failed, the mapping was unmapped and the error returned.
C20_Witness ==
    /\ last.op = "AllocateLocked"
    /\ last.sys = <<<<"mmap", "">>, <<"mlock2", "ENOSYS">>,
                    <<"mlock", "ENOMEM">>, <<"munmap", "">>>>
    /\ last.err = "ENOMEM"
    /\ last.new = {}
    /\ src = NilBuf

\* C21 Between calls, a SecureBuffer that is not destroyed and was made from
\* an N-byte plaintext owns one mapped region of 28 + N + 16 bytes, plus 32
\* when IntegrityCheck was on at encrypt time; its salt, nonce, ciphertext
\* and mac are the adjacent ranges [0,16), [16,28), [28,28+N+16) and
\* [28+N+16,28+N+48) of that region (no mac without IntegrityCheck), and
\* together they cover it.
C21_EnvelopeLayout ==
    (made /\ ~s.destroyed /\ CallerIdle) =>
      LET N  == Len(sealed.plain)
          L  == 28 + N + 16 + (IF sealed.ic THEN 32 ELSE 0)
          fs == <<s.salt, s.nonce, s.ciphertext>>
                \o (IF sealed.ic THEN <<s.mac>> ELSE <<>>)
      IN  /\ s.mem = "env"
          /\ env.ptr # NULL
          /\ env.size = L
          /\ regs[env.ptr].mapped
          /\ regs[env.ptr].len = L
          /\ s.salt = [ptr |-> env.ptr, off |-> 0, len |-> 16]
          /\ s.nonce = [ptr |-> env.ptr, off |-> 16, len |-> 12]
          /\ s.ciphertext = [ptr |-> env.ptr, off |-> 28, len |-> N + 16]
          /\ s.mac = IF sealed.ic
                     THEN [ptr |-> env.ptr, off |-> 28 + N + 16, len |-> 32]
                     ELSE NilSlice
          /\ fs[1].off = 0
          /\ \A i \in 1..(Len(fs) - 1) : fs[i].off + fs[i].len = fs[i + 1].off
          /\ fs[Len(fs)].off + fs[Len(fs)].len = regs[env.ptr].len

\* A SecureBuffer made with IntegrityCheck on, from a plaintext that is not
\* empty, after a Decrypt has read it.
C21_Witness ==
    /\ made /\ ~s.destroyed /\ CallerIdle
    /\ sealed.ic
    /\ Len(sealed.plain) > 0
    /\ s.mac.off = 28 + Len(sealed.plain) + 16
    /\ regs[env.ptr].len = 76 + Len(sealed.plain)
    /\ last.op = "Decrypt"

\* C22 A locked region is released over the full range it was allocated
\* with: when FreeLocked is called on a live handle from AllocateLocked, the
\* plaintext handle Decrypt returned included, and no operating-system call
\* is made to fail, it returns success, every byte of the mapping is zero
\* or gone, and the mapping is no longer mapped.
C22_Stated ==
    (last.op = "FreeLocked" /\ ~last.freed /\ ~last.hit)
        => /\ last.err = ""
           /\ last.zero
           /\ ~last.live
           /\ last.grew = -1

====
